---------------------------- MODULE Spec2Model ----------------------------
(***************************************************************************)
(* A model of Dryad.py: the token cache (cache_token, load_cached_token),  *)
(* the authenticator (get_dryad_token), version resolution, file listing,  *)
(* file download, the archiver (zip_folder) and the orchestrating loop of  *)
(* main.  Time is counted in whole minutes.  The network, the clock and    *)
(* the failures of the file system are the environment: every response the *)
(* code distinguishes is one nondeterministic outcome.                     *)
(***************************************************************************)
EXTENDS Integers, Sequences, FiniteSets, TLC

(* ----------------------------- bounds --------------------------------- *)
NumIds == 2            \* identifiers are 1..NumIds
MaxDois == 2           \* identifiers given to main in one behaviour, all runs together
MaxFiles == 2          \* file paths are 1..MaxFiles
MaxVersions == 2       \* longest embedded versions list
MaxRuns == 2           \* invocations of main in one behaviour
MaxTicks == 1          \* clock advances in one behaviour
MaxHours == 2          \* largest lifetime handed to cache_token directly
MaxCacheOps == 4       \* direct cache operations in one behaviour
MaxCacheTicks == 3
MaxLength == 3        \* the small content-lengths and file sizes, in bytes
BigLength == 2001    \* a content-length large enough for the rounding of the progress     \* clock advances between direct cache operations

(* ------------------------ program constants --------------------------- *)
DEFAULT_EXPIRED_HOURS == 10    \* cache_token(token, expired_hours = 10)
HTTP_OK == 200
CHUNK_SIZE == 8192

(* ------------------------- value universes ---------------------------- *)
None == "None"
Tokens == {"tokA", "tokB"}
Ids == 1..NumIds
Files == 1..MaxFiles
Hrefs == {"", "/v1", "/v2"}
NonOkCodes == {401, 404}
TickSteps == {598, 599}        \* just short of, and exactly, the 599 minute lifetime
CacheTickSteps == {1, 58}      \* a minute; just short of a one hour expiry

(* ----------------------- timestamps on disk --------------------------- *)
\* datetime.isoformat(): the instant written out field by field
isoformat(t) ==
    [day |-> t \div 1440, hour |-> (t % 1440) \div 60, minute |-> t % 60]

\* datetime.fromisoformat(): the instant read back from its fields
fromisoformat(s) == s.day * 1440 + s.hour * 60 + s.minute

(* ------------------------- the cache file ----------------------------- *)
NoFile == [kind |-> "nofile"]
Corrupt == [kind |-> "corrupt"]      \* a file json.load or the keys reject
CacheRecord(tok, exp) == [kind |-> "record", token |-> tok, expiry |-> exp]

lifetime_minutes_no_margin(expired_hours) == expired_hours * 60

\* the lifetime in minutes: timedelta(minutes = expired_hours * 60 - 1)
lifetime_minutes(expired_hours) == expired_hours * 60 - 1

\* cache_token: the file content written, replacing whatever was there
cache_token(tok, expired_hours, nowv) ==
    CacheRecord(tok, isoformat(nowv + lifetime_minutes(expired_hours)))

not_expired_le(nowv, expiry_time) == nowv <= expiry_time

\* the comparison datetime.now() < expiry_time
not_expired(nowv, expiry_time) == nowv < expiry_time

evict_keep(file) == file

\* os.remove(cache_file)
evict(file) == NoFile

\* load_cached_token: the value returned and the file left behind
load_cached_token(file, nowv) ==
    IF file.kind = "nofile" THEN [ret |-> None, file |-> file]
    ELSE IF file.kind = "corrupt" THEN [ret |-> None, file |-> file]
    ELSE IF not_expired(nowv, fromisoformat(file.expiry))
         THEN [ret |-> file.token, file |-> file]
         ELSE [ret |-> None, file |-> evict(file)]


(* --------------------------- truthiness ------------------------------- *)
\* Python's truth value of a string or None
Truthy(x) == x # None /\ x # ""

(* -------------------------- authenticator ----------------------------- *)
NoResp == [kind |-> "none"]
AuthResponses ==
    {[kind |-> "transport"], [kind |-> "malformed"]}
    \cup {[kind |-> "status", code |-> c] : c \in NonOkCodes}
    \cup {[kind |-> "ok", code |-> HTTP_OK, token |-> t] : t \in Tokens}

\* the guard of line 35
config_missing(cid, csec) == ~Truthy(cid) \/ ~Truthy(csec)

exchange_save_any(file, nowv, resp) ==
    IF resp.kind = "ok"
    THEN [ret |-> resp.token, raised |-> FALSE, posts |-> 1,
          file |-> cache_token(resp.token, DEFAULT_EXPIRED_HOURS, nowv)]
    ELSE IF resp.kind = "status"
    THEN [ret |-> None, raised |-> FALSE, posts |-> 1,
          file |-> cache_token(None, DEFAULT_EXPIRED_HOURS, nowv)]
    ELSE [ret |-> None, raised |-> TRUE, posts |-> 1, file |-> file]

\* what the code after the cache lookup does: the POST and its branches
exchange(file, nowv, resp) ==
    IF resp.kind = "ok"
    THEN [ret |-> resp.token, raised |-> FALSE, posts |-> 1,
          file |-> cache_token(resp.token, DEFAULT_EXPIRED_HOURS, nowv)]
    ELSE IF resp.kind = "status"
    THEN [ret |-> None, raised |-> FALSE, posts |-> 1, file |-> file]
    ELSE [ret |-> None, raised |-> TRUE, posts |-> 1, file |-> file]

get_dryad_token_load_first(cid, csec, file, nowv, resp) ==
    LET l == load_cached_token(file, nowv) IN
    IF Truthy(l.ret)
    THEN [ret |-> l.ret, raised |-> FALSE, posts |-> 0, file |-> l.file]
    ELSE IF config_missing(cid, csec)
    THEN [ret |-> None, raised |-> FALSE, posts |-> 0, file |-> l.file]
    ELSE exchange(l.file, nowv, resp)

get_dryad_token_no_cache(cid, csec, file, nowv, resp) ==
    IF config_missing(cid, csec)
    THEN [ret |-> None, raised |-> FALSE, posts |-> 0, file |-> file]
    ELSE exchange(file, nowv, resp)

\* get_dryad_token: the value returned (or an exception raised), the number
\* of POSTs issued and the cache file left behind
get_dryad_token(cid, csec, file, nowv, resp) ==
    IF config_missing(cid, csec)
    THEN [ret |-> None, raised |-> FALSE, posts |-> 0, file |-> file]
    ELSE LET l == load_cached_token(file, nowv) IN
         IF Truthy(l.ret)
         THEN [ret |-> l.ret, raised |-> FALSE, posts |-> 0, file |-> l.file]
         ELSE exchange(l.file, nowv, resp)

(* ------------------------ version resolution -------------------------- *)
SeqsUpTo(S, n) == UNION {[1..k -> S] : k \in 0..n}

VersionResponses ==
    {[kind |-> "transport"], [kind |-> "malformed"]}
    \cup {[kind |-> "status", code |-> c] : c \in NonOkCodes}
    \cup {[kind |-> "ok", code |-> HTTP_OK, count |-> n, versions |-> vs] :
              n \in 0..(MaxVersions + 1), vs \in SeqsUpTo(Hrefs, MaxVersions)}

\* Python's list[i]: negative indices count from the end
InRange(s, i) == -Len(s) <= i /\ i < Len(s)
PyIndex(s, i) == IF i >= 0 THEN s[i + 1] ELSE s[Len(s) + i + 1]

\* lines 197-203: logging.error is called only with a response at hand, and
\* requests.get raised before there was one
version_logged(resp) == FALSE

\* get_dryad_dataset_version: the locator returned, or an exception that
\* leaves the function (KeyError, IndexError)
get_dryad_dataset_version(resp) ==
    IF resp.kind = "ok"
    THEN IF InRange(resp.versions, resp.count - 1)
         THEN LET latest_versions_url == PyIndex(resp.versions, resp.count - 1) IN
              [ret |-> IF Truthy(latest_versions_url) THEN latest_versions_url ELSE None,
               raised |-> FALSE]
         ELSE [ret |-> None, raised |-> TRUE]
    ELSE IF resp.kind = "malformed"
    THEN [ret |-> None, raised |-> TRUE]
    ELSE [ret |-> None, raised |-> FALSE]

(* --------------------------- file listing ----------------------------- *)
Injective(s) == \A i, j \in DOMAIN s : s[i] = s[j] => i = j
FileLists == {s \in SeqsUpTo(Files, MaxFiles) : Injective(s)}

\* the responses to GET https://datadryad.org{version}/files; with version
\* None the host of the URL is "datadryad.orgNone", which no resolver knows
ListResponses(ver) ==
    IF ver = None THEN {[kind |-> "transport"]}
    ELSE {[kind |-> "transport"], [kind |-> "malformed"]}
         \cup {[kind |-> "status", code |-> c] : c \in NonOkCodes}
         \cup {[kind |-> "ok", code |-> HTTP_OK, files |-> fl] : fl \in FileLists}

\* lines 233-234: a RequestException of the files request is logged; a
\* status other than 200 falls out of the if of line 221 without a word
list_logged(resp) == resp.kind = "transport"

parent_missing_never(parent) == FALSE

\* the guard of line 155
parent_missing(parent) == ~Truthy(parent)

(* ---------------------------- file system ----------------------------- *)
\* a file is absent, partly written ("partial") or wholly written ("full")
NoEntries == [f \in Files |-> "absent"]
NoDir == [exists |-> FALSE, files |-> NoEntries]
NoZip == [exists |-> FALSE, closed |-> FALSE, entries |-> NoEntries, names |-> {}]
Present(dir) == {f \in Files : dir.files[f] # "absent"}
Min(S) == CHOOSE x \in S : \A y \in S : x <= y

\* paths are sequences of components; a directory is a number (-1 is
\* PARENT_DIRECTORY, 0 a subdirectory of a source tree), a file its own
\* number. get_dryad_dataset writes every file straight into {id}_data
\* (line 230)
NoSubdir == << >>
Subdir == <<0>>
Flat == [f \in Files |-> NoSubdir]

\* os.path.join(PARENT_DIRECTORY, f"{doi}_data") of line 162
source_path_of(i) == <<-1, i>>

\* os.path.join(root, file) of line 76
join(root, file) == Append(root, file)

relpath_basename(path, start) == <<path[Len(path)]>>

\* os.path.relpath(file_path, source_path) of line 77, for a path below start
relpath(path, start) == SubSeq(path, Len(start) + 1, Len(path))

\* lines 74-77: the name under which file f, found by os.walk in the
\* directory sub of the source tree, enters the archive
arcname(i, sub, f) ==
    LET source_path == source_path_of(i)
        root == source_path \o sub
        file_path == join(root, f)
    IN relpath(file_path, source_path)

\* os.makedirs(directory_path, exist_ok = True)
makedirs(dir) == [dir EXCEPT !.exists = TRUE]

DownloadOutcomes == {"http_error", "transport", "truncated", "ok", "open_fails"}

\* get_dryad_dataset_file: the destination file after the call
downloaded_file(old, outcome) ==
    IF outcome = "ok" THEN "full"
    ELSE IF outcome = "truncated" THEN "partial"
    ELSE old

\* create_new_dir: whether a path is returned, the directory afterwards, and
\* whether the missing configuration was reported; mk is os.makedirs'
\* success
create_new_dir(parent, dir, mk) ==
    IF parent_missing(parent) THEN [ok |-> FALSE, dir |-> dir, cfgerr |-> TRUE]
    ELSE IF mk THEN [ok |-> TRUE, dir |-> makedirs(dir), cfgerr |-> FALSE]
    ELSE [ok |-> FALSE, dir |-> dir, cfgerr |-> FALSE]

(* ------------------------------ archiver ------------------------------ *)
zip_after_finally(phase, ok, more) ==
    IF ~ok THEN "rmtree"
    ELSE IF phase = "zip_close" THEN "rmtree"
    ELSE IF more THEN "zip_write" ELSE "zip_close"

\* zip_folder: where control goes after a step (ZipFile(...), zipf.write,
\* leaving the with block); an exception leaves zip_folder before line 80
zip_after(phase, ok, more) ==
    IF ~ok THEN "crashed"
    ELSE IF phase = "zip_close" THEN "rmtree"
    ELSE IF more THEN "zip_write" ELSE "zip_close"

after_download_first(idx, n) == "archive"

\* the for loop of line 229: the next file of the listing, or line 231
after_download(idx, n) == IF idx < n THEN "download" ELSE "archive"

bearer_anonymous(tok) == None

\* the Authorization header of lines 185, 216 and 253: f"Bearer {token}"
bearer(tok) == tok

\* whether a download outcome is reported by logging.error (line 275)
download_logged(outcome) == outcome \in {"http_error", "transport", "truncated"}

token_missing_never(tok) == FALSE

\* the guard of line 288
token_missing(tok) == ~Truthy(tok)


(* ------------------------------- state -------------------------------- *)
VARIABLES
    CLIENT_ID, CLIENT_SECRET, PARENT_DIRECTORY,  \* the globals of lines 12-14
    cacheFile,          \* .token_cache.json
    now, ticks,         \* the clock, and how often it was advanced
    pc, runs,           \* where main is, and how many times it was started
    given,              \* how many identifiers the runs so far were given
    token, dois, doiIdx,            \* main's locals
    version, file_list, fileIdx,    \* get_dryad_dataset's locals
    workdir, outdir, zipfile,       \* per identifier: {id}_data, {id}, dataset.zip
    walk,               \* zip_folder: the files os.walk has yet to yield
    auth,               \* history: the call of get_dryad_token of this run
    cur,                \* history: what was done for the current identifier
    run,                \* history: what was done in this run
    cacheOp, saved, cacheOps,       \* history of direct cache operations
    vr,                 \* one call of get_dryad_dataset_version on its own
    dl,                 \* one call of get_dryad_dataset_file on its own
    layout              \* per file: the subdirectory of the source tree it lies in

config == <<CLIENT_ID, CLIENT_SECRET, PARENT_DIRECTORY>>
clock == <<now, ticks>>
locals == <<token, dois, doiIdx, version, file_list, fileIdx>>
disk == <<workdir, outdir, zipfile, walk>>
cacheHist == <<cacheOp, saved, cacheOps>>
calls == <<vr, dl>>
vars == <<config, cacheFile, clock, pc, runs, given, locals, disk, auth, cur, run, cacheHist, calls,
          layout>>

NoAuth == [calls |-> 0, posts |-> 0, pre |-> NoFile, at |-> 0, resp |-> NoResp]
NoCur == [versions |-> 0, files |-> 0, downloads |-> 0, mkdirs |-> 0,
          cfgerr |-> FALSE, zipfail |-> FALSE, removed |-> FALSE,
          src |-> NoEntries,
          failed |-> FALSE,     \* a step for this identifier failed
          logged |-> FALSE,     \* logging.error was called for this identifier
          archived |-> FALSE,   \* line 231 was reached
          attempted |-> <<>>]   \* the files whose download was requested
NoRun == [gets |-> FALSE, mkdirs |-> FALSE, resolved |-> 0, bearer |-> {}]
NoCacheOp == [op |-> "none", pre |-> NoFile, at |-> 0, ret |-> None]
NoSave == [token |-> None, hours |-> 0, at |-> 0]
NoCall == [resp |-> NoResp, called |-> FALSE, ret |-> None, raised |-> FALSE]
NoBytes == [exists |-> FALSE, bytes |-> 0]
NoDownload == [code |-> 0, total_size |-> 0, body |-> 0,
               before |-> NoBytes, dest |-> NoBytes, downloaded |-> 0,
               prev |-> -1, pct |-> -1, reported |-> FALSE, logged |-> FALSE]

Init ==
    /\ CLIENT_ID = "" /\ CLIENT_SECRET = "" /\ PARENT_DIRECTORY = ""
    /\ cacheFile = NoFile
    /\ now = 0 /\ ticks = 0
    /\ pc = "idle" /\ runs = 0 /\ given = 0
    /\ token = None /\ dois = <<>> /\ doiIdx = 0
    /\ version = None /\ file_list = <<>> /\ fileIdx = 0
    /\ workdir = [i \in Ids |-> NoDir]
    /\ outdir = [i \in Ids |-> NoDir]
    /\ zipfile = [i \in Ids |-> NoZip]
    /\ walk = {}
    /\ auth = NoAuth /\ cur = NoCur /\ run = NoRun
    /\ cacheOp = NoCacheOp /\ saved = NoSave /\ cacheOps = 0
    /\ vr = NoCall /\ dl = NoDownload
    /\ layout = Flat

doi == dois[doiIdx]

(* ------------------------------ the clock ----------------------------- *)
\* the clock is read by get_dryad_token alone, so it is enough to let time
\* pass between runs and between the identifiers of a run
Tick ==
    /\ pc \in {"loop", "done", "aborted", "crashed"}
    /\ ticks < MaxTicks
    /\ \E d \in TickSteps : now' = now + d
    /\ ticks' = ticks + 1
    /\ UNCHANGED <<config, cacheFile, pc, runs, given, locals, disk, auth, cur, run, cacheHist, calls, layout>>

(* -------------------------------- main -------------------------------- *)
\* lines 277-286: the program is started with an environment and arguments
Main ==
    /\ pc \in {"idle", "done", "aborted", "crashed"}
    /\ runs < MaxRuns
    /\ runs' = runs + 1
    /\ CLIENT_ID' \in {"", "id"}
    /\ CLIENT_SECRET' \in {"", "secret"}
    /\ PARENT_DIRECTORY' \in {"", "/data/"}
    /\ dois' \in SeqsUpTo(Ids, MaxDois - given)
    /\ given' = given + Len(dois')
    /\ token' = None /\ doiIdx' = 0
    /\ version' = None /\ file_list' = <<>> /\ fileIdx' = 0
    /\ walk' = {}
    /\ auth' = NoAuth /\ cur' = NoCur /\ run' = NoRun
    /\ pc' = "auth"
    /\ UNCHANGED <<cacheFile, clock, workdir, outdir, zipfile, cacheHist, calls, layout>>

\* lines 287-295: the token is obtained, then the arguments are looked at
Authenticate ==
    /\ pc = "auth"
    /\ \E resp \in AuthResponses :
         LET r == get_dryad_token(CLIENT_ID, CLIENT_SECRET, cacheFile, now, resp) IN
         /\ cacheFile' = r.file
         /\ token' = r.ret
         /\ auth' = [calls |-> auth.calls + 1, posts |-> auth.posts + r.posts,
                     pre |-> cacheFile, at |-> now,
                     resp |-> IF r.posts = 0 THEN NoResp ELSE resp]
         /\ pc' = IF r.raised THEN "crashed"
                  ELSE IF token_missing(r.ret) THEN "aborted"
                  ELSE IF dois = <<>> THEN "aborted"
                  ELSE "loop"
    /\ UNCHANGED <<config, clock, runs, given, dois, doiIdx, version, file_list, fileIdx,
                   disk, cur, run, cacheHist, calls, layout>>

\* lines 296-298: the head of the loop over the identifiers
NextDoi ==
    /\ pc = "loop"
    /\ IF doiIdx < Len(dois)
       THEN /\ doiIdx' = doiIdx + 1
            /\ pc' = "resolve"
       ELSE /\ doiIdx' = doiIdx
            /\ pc' = "done"
    /\ version' = None /\ file_list' = <<>> /\ fileIdx' = 0
    /\ cur' = NoCur
    /\ UNCHANGED <<config, cacheFile, clock, runs, given, token, dois, disk, auth, run,
                   cacheHist, calls, layout>>


(* ------------------------- get_dryad_dataset -------------------------- *)
\* line 213: the versions request and what get_dryad_dataset_version
\* makes of the response
Resolve ==
    /\ pc = "resolve"
    /\ \E resp \in VersionResponses :
         LET r == get_dryad_dataset_version(resp) IN
         /\ version' = r.ret
         /\ pc' = IF r.raised THEN "crashed" ELSE "list"
         /\ cur' = [cur EXCEPT !.versions = @ + 1,
                               !.failed = resp.kind # "ok" \/ r.raised,
                               !.logged = version_logged(resp)]
    /\ run' = [run EXCEPT !.gets = TRUE, !.resolved = @ + 1,
                          !.bearer = @ \cup {bearer(token)}]
    /\ UNCHANGED <<config, cacheFile, clock, runs, given, token, dois, doiIdx, file_list,
                   fileIdx, disk, auth, cacheHist, calls, layout>>

\* lines 214-228 and 233-240: the files request, whatever version is, and
\* the creation of the working directory
ListFiles ==
    /\ pc = "list"
    /\ \E resp \in ListResponses(version), mk \in BOOLEAN :
         IF resp.kind = "ok"
         THEN LET c == create_new_dir(PARENT_DIRECTORY, workdir[doi], mk) IN
              /\ file_list' = resp.files
              /\ workdir' = [workdir EXCEPT ![doi] = c.dir]
              /\ cur' = [cur EXCEPT !.files = @ + 1, !.cfgerr = c.cfgerr,
                                    !.mkdirs = @ + (IF c.ok THEN 1 ELSE 0),
                                    !.failed = @ \/ ~c.ok,
                                    !.logged = @ \/ ~c.ok]
              /\ run' = [run EXCEPT !.gets = TRUE,
                                    !.mkdirs = @ \/ c.ok,
                                    !.bearer = @ \cup {bearer(token)}]
              /\ fileIdx' = IF c.ok /\ resp.files # <<>> THEN 1 ELSE 0
              /\ pc' = IF ~c.ok THEN "loop"
                       ELSE IF resp.files = <<>> THEN "archive"
                       ELSE "download"
         ELSE /\ pc' = IF resp.kind = "malformed" THEN "crashed" ELSE "loop"
              /\ cur' = [cur EXCEPT !.files = @ + 1,
                                    !.failed = TRUE,
                                    !.logged = @ \/ list_logged(resp)]
              /\ run' = [run EXCEPT !.gets = TRUE,
                                    !.bearer = @ \cup {bearer(token)}]
              /\ UNCHANGED <<file_list, fileIdx, workdir>>
    /\ UNCHANGED <<config, cacheFile, clock, runs, given, token, dois, doiIdx, version,
                   outdir, zipfile, walk, auth, cacheHist, calls, layout>>

\* lines 229-230 and 242-275: one file of the listing is downloaded
Download ==
    /\ pc = "download"
    /\ \E outcome \in DownloadOutcomes :
         LET file == file_list[fileIdx] IN
         /\ workdir' = [workdir EXCEPT
                ![doi].files[file] = downloaded_file(@, outcome)]
         /\ IF outcome = "open_fails"
            THEN pc' = "crashed" /\ fileIdx' = fileIdx
            ELSE /\ pc' = after_download(fileIdx, Len(file_list))
                 /\ fileIdx' = IF fileIdx < Len(file_list) THEN fileIdx + 1 ELSE fileIdx
         /\ cur' = [cur EXCEPT !.downloads = @ + 1,
                               !.attempted = Append(@, file),
                               !.failed = @ \/ outcome # "ok",
                               !.logged = @ \/ download_logged(outcome)]
    /\ run' = [run EXCEPT !.gets = TRUE, !.bearer = @ \cup {bearer(token)}]
    /\ UNCHANGED <<config, cacheFile, clock, runs, given, token, dois, doiIdx, version,
                   file_list, outdir, zipfile, walk, auth, cacheHist, calls, layout>>

\* lines 231-232 and 72-73: the output directory is created and the
\* archive opened for writing; a final_directory of None makes os.path.join
\* raise
Archive ==
    /\ pc = "archive"
    /\ \E mk \in BOOLEAN, ok \in BOOLEAN :
         LET c == create_new_dir(PARENT_DIRECTORY, outdir[doi], mk)
             opened == c.ok /\ ok
             files == Present(workdir[doi])
         IN
         /\ outdir' = [outdir EXCEPT ![doi] = c.dir]
         /\ zipfile' = IF opened
                       THEN [zipfile EXCEPT ![doi] =
                               [exists |-> TRUE, closed |-> FALSE, entries |-> NoEntries,
                                names |-> {}]]
                       ELSE zipfile
         /\ walk' = IF opened THEN files ELSE {}
         /\ cur' = [cur EXCEPT !.src = workdir[doi].files,
                               !.zipfail = ~opened,
                               !.archived = TRUE,
                               !.failed = @ \/ ~opened,
                               !.logged = @ \/ ~c.ok,
                               !.cfgerr = c.cfgerr,
                               !.mkdirs = @ + (IF c.ok THEN 1 ELSE 0)]
         /\ run' = [run EXCEPT !.mkdirs = @ \/ c.ok]
         /\ pc' = IF c.ok THEN zip_after("zip_open", ok, files # {}) ELSE "crashed"
    /\ UNCHANGED <<config, cacheFile, clock, runs, given, locals, workdir, auth, cacheHist, calls, layout>>

\* lines 74-78: one file of the walk is written into the archive; an
\* exception leaves the with block, which closes the archive as it is
ZipWrite ==
    /\ pc = "zip_write"
    /\ \E ok \in BOOLEAN :
         LET file == Min(walk) IN
         /\ zipfile' = IF ok
                       THEN [zipfile EXCEPT ![doi].entries[file] = workdir[doi].files[file],
                                            ![doi].names = @ \cup {arcname(doi, layout[file], file)}]
                       ELSE [zipfile EXCEPT ![doi].closed = TRUE]
         /\ walk' = IF ok THEN walk \ {file} ELSE walk
         /\ cur' = [cur EXCEPT !.zipfail = ~ok, !.failed = @ \/ ~ok]
         /\ pc' = zip_after("zip_write", ok, walk \ {file} # {})
    /\ UNCHANGED <<config, cacheFile, clock, runs, given, locals, workdir, outdir, auth,
                   run, cacheHist, calls, layout>>

\* line 79 and the end of the with block: the archive is closed
ZipClose ==
    /\ pc = "zip_close"
    /\ \E ok \in BOOLEAN :
         /\ zipfile' = [zipfile EXCEPT ![doi].closed = ok]
         /\ cur' = [cur EXCEPT !.zipfail = ~ok, !.failed = @ \/ ~ok]
         /\ pc' = zip_after("zip_close", ok, FALSE)
    /\ UNCHANGED <<config, cacheFile, clock, runs, given, locals, workdir, outdir, walk,
                   auth, run, cacheHist, calls, layout>>

\* lines 80-82: shutil.rmtree(source_path)
Rmtree ==
    /\ pc = "rmtree"
    /\ workdir' = [workdir EXCEPT ![doi] = NoDir]
    /\ cur' = [cur EXCEPT !.removed = TRUE]
    /\ pc' = "loop"
    /\ UNCHANGED <<config, cacheFile, clock, runs, given, locals, outdir, zipfile, walk,
                   auth, run, cacheHist, calls, layout>>

Next ==
    \/ Tick
    \/ Main
    \/ Authenticate
    \/ NextDoi
    \/ Resolve
    \/ ListFiles
    \/ Download
    \/ Archive
    \/ ZipWrite
    \/ ZipClose
    \/ Rmtree

Spec == Init /\ [][Next]_vars

(* -------------------- the token cache on its own ---------------------- *)
CacheInit ==
    /\ CLIENT_ID = "" /\ CLIENT_SECRET = "" /\ PARENT_DIRECTORY = ""
    /\ cacheFile \in {NoFile, Corrupt}
    /\ now = 0 /\ ticks = 0
    /\ pc = "cache" /\ runs = 0 /\ given = 0
    /\ token = None /\ dois = <<>> /\ doiIdx = 0
    /\ version = None /\ file_list = <<>> /\ fileIdx = 0
    /\ workdir = [i \in Ids |-> NoDir]
    /\ outdir = [i \in Ids |-> NoDir]
    /\ zipfile = [i \in Ids |-> NoZip]
    /\ walk = {}
    /\ auth = NoAuth /\ cur = NoCur /\ run = NoRun
    /\ cacheOp = NoCacheOp /\ saved = NoSave /\ cacheOps = 0
    /\ vr = NoCall /\ dl = NoDownload
    /\ layout = Flat

notCache == <<config, pc, runs, given, locals, disk, auth, cur, run, calls, layout>>

\* cache_token(token, expired_hours) called at the present instant
Save ==
    /\ cacheOps < MaxCacheOps
    /\ \E t \in Tokens, h \in 0..MaxHours :
         /\ cacheFile' = cache_token(t, h, now)
         /\ saved' = [token |-> t, hours |-> h, at |-> now]
    /\ cacheOp' = [op |-> "save", pre |-> cacheFile, at |-> now, ret |-> None]
    /\ cacheOps' = cacheOps + 1
    /\ UNCHANGED <<notCache, clock>>

\* load_cached_token() called at the present instant
Load ==
    /\ cacheOps < MaxCacheOps
    /\ LET l == load_cached_token(cacheFile, now) IN
         /\ cacheFile' = l.file
         /\ cacheOp' = [op |-> "load", pre |-> cacheFile, at |-> now, ret |-> l.ret]
    /\ cacheOps' = cacheOps + 1
    /\ UNCHANGED <<notCache, clock, saved>>

CacheTick ==
    /\ ticks < MaxCacheTicks
    /\ \E d \in CacheTickSteps : now' = now + d
    /\ ticks' = ticks + 1
    /\ UNCHANGED <<notCache, cacheFile, cacheHist>>

CacheNext == Save \/ Load \/ CacheTick

CacheSpec == CacheInit /\ [][CacheNext]_vars


(* ---------------- get_dryad_dataset_version on its own ---------------- *)
\* everything outside the one call stays as the program starts
Idle ==
    /\ CLIENT_ID = "" /\ CLIENT_SECRET = "" /\ PARENT_DIRECTORY = ""
    /\ cacheFile = NoFile
    /\ now = 0 /\ ticks = 0
    /\ runs = 0 /\ given = 0
    /\ token = None /\ dois = <<>> /\ doiIdx = 0
    /\ version = None /\ file_list = <<>> /\ fileIdx = 0
    /\ workdir = [i \in Ids |-> NoDir]
    /\ outdir = [i \in Ids |-> NoDir]
    /\ zipfile = [i \in Ids |-> NoZip]
    /\ walk = {}
    /\ auth = NoAuth /\ cur = NoCur /\ run = NoRun
    /\ cacheOp = NoCacheOp /\ saved = NoSave /\ cacheOps = 0
    /\ layout = Flat

notCalls == <<config, cacheFile, clock, runs, given, locals, disk, auth, cur, run, cacheHist, layout>>

\* the response the versions request of line 187 is about to get
VersionInit ==
    /\ Idle
    /\ pc = "version"
    /\ vr \in {[NoCall EXCEPT !.resp = r] : r \in VersionResponses}
    /\ dl = NoDownload

\* lines 186-203: the call, from the response to what it returns or raises
GetVersion ==
    /\ pc = "version"
    /\ LET r == get_dryad_dataset_version(vr.resp) IN
         vr' = [vr EXCEPT !.called = TRUE, !.ret = r.ret, !.raised = r.raised]
    /\ pc' = "returned"
    /\ UNCHANGED <<notCalls, dl>>

VersionNext == GetVersion

VersionSpec == VersionInit /\ [][VersionNext]_vars

(* -------------------------- zip_folder on its own ---------------------- *)
\* any source tree, with files at the top and in a subdirectory, and any
\* earlier archive at the destination
Trees == {[exists |-> TRUE, files |-> fs] : fs \in [Files -> {"absent", "partial", "full"}]}
OldZips == {NoZip} \cup {[exists |-> TRUE, closed |-> TRUE, entries |-> fs,
                          names |-> {<<f>> : f \in {g \in Files : fs[g] # "absent"}}] :
                             fs \in [Files -> {"absent", "full"}]}

ZipInit ==
    /\ CLIENT_ID = "id" /\ CLIENT_SECRET = "secret" /\ PARENT_DIRECTORY = "/data/"
    /\ cacheFile = NoFile
    /\ now = 0 /\ ticks = 0
    /\ pc = "archive" /\ runs = 1 /\ given = 1
    /\ token \in Tokens /\ dois = <<1>> /\ doiIdx = 1
    /\ version = "/v1" /\ file_list = <<>> /\ fileIdx = 1
    /\ workdir \in {[[i \in Ids |-> NoDir] EXCEPT ![1] = t] : t \in Trees}
    /\ outdir \in {[[i \in Ids |-> NoDir] EXCEPT ![1] = d] : d \in {NoDir, makedirs(NoDir)}}
    /\ zipfile \in {[[i \in Ids |-> NoZip] EXCEPT ![1] = z] : z \in OldZips}
    /\ walk = {}
    /\ auth = NoAuth /\ cur = NoCur /\ run = NoRun
    /\ cacheOp = NoCacheOp /\ saved = NoSave /\ cacheOps = 0
    /\ vr = NoCall /\ dl = NoDownload
    /\ layout \in [Files -> {NoSubdir, Subdir}]

ZipNext ==
    \/ Archive
    \/ ZipWrite
    \/ ZipClose
    \/ Rmtree

ZipSpec == ZipInit /\ [][ZipNext]_vars

(* ------------------ get_dryad_dataset_file on its own ------------------ *)
\* what open(..., 'wb') may find at local_file_path
DestStates == {NoBytes} \cup {[exists |-> TRUE, bytes |-> n] : n \in 0..MaxLength}

\* the content-length header of line 259 (0 when there is none) and the
\* number of bytes iter_content goes on to yield, which the code never
\* compares with it
ContentLengths == (0..MaxLength) \cup {BigLength}
Bodies(length) == {n \in {length - 1, length, length + 1} : n >= 0}
ChunkSizes == {c \in {0, 1, 2, BigLength - 1} : c <= CHUNK_SIZE}

DownloadResponses ==
    {[kind |-> "transport"]}
    \cup {[kind |-> "response", code |-> c, length |-> n, body |-> b] :
              c \in {HTTP_OK} \cup NonOkCodes, n \in ContentLengths,
              b \in UNION {Bodies(k) : k \in ContentLengths}}

raise_for_status_never(code) == FALSE

\* line 257: response.raise_for_status() raises HTTPError for 4xx and 5xx
raise_for_status(code) == 400 <= code /\ code < 600

count_chunk_reset(downloaded, n) == n

\* line 267: downloaded += len(chunk)
count_chunk(downloaded, n) == downloaded + n

\* lines 269-270: (downloaded / total_size) * 100 as "{percentage:.1f}"
\* prints it, in tenths of a percent
progress(downloaded, total_size) == (2000 * downloaded + total_size) \div (2 * total_size)

DownloadInit ==
    /\ Idle
    /\ pc = "dl_request"
    /\ vr = NoCall
    /\ dl \in {[NoDownload EXCEPT !.before = b, !.dest = b] : b \in DestStates}

\* lines 256-260: the request, raise_for_status and the content-length
DlRequest ==
    /\ pc = "dl_request"
    /\ \E resp \in DownloadResponses :
         IF resp.kind = "transport"
         THEN /\ dl' = [dl EXCEPT !.logged = TRUE]
              /\ pc' = "dl_failed"
         ELSE /\ resp.body \in Bodies(resp.length)
              /\ IF raise_for_status(resp.code)
                 THEN /\ dl' = [dl EXCEPT !.code = resp.code, !.logged = TRUE]
                      /\ pc' = "dl_failed"
                 ELSE /\ dl' = [dl EXCEPT !.code = resp.code,
                                          !.total_size = resp.length,
                                          !.body = resp.body]
                      /\ pc' = "dl_open"
    /\ UNCHANGED <<notCalls, vr>>

\* line 264: open(local_file_path, 'wb') creates or truncates the file; its
\* OSError is not caught
DlOpen ==
    /\ pc = "dl_open"
    /\ \E ok \in BOOLEAN :
         IF ok
         THEN /\ dl' = [dl EXCEPT !.dest = [exists |-> TRUE, bytes |-> 0]]
              /\ pc' = "dl_stream"
         ELSE /\ dl' = dl
              /\ pc' = "dl_raised"
    /\ UNCHANGED <<notCalls, vr>>

\* lines 265-271: one chunk of at most chunk_size bytes
DlChunk ==
    /\ pc = "dl_stream"
    /\ \E c \in ChunkSizes :
         /\ dl.dest.bytes + c <= dl.body
         /\ IF c > 0
            THEN LET d == count_chunk(dl.downloaded, c) IN
                 dl' = [dl EXCEPT !.dest.bytes = @ + c,
                                  !.downloaded = d,
                                  !.prev = IF dl.total_size > 0 THEN dl.pct ELSE @,
                                  !.pct = IF dl.total_size > 0
                                          THEN progress(d, dl.total_size)
                                          ELSE @]
            ELSE dl' = dl
    /\ pc' = pc
    /\ UNCHANGED <<notCalls, vr>>

\* lines 265 and 273-275: the connection breaks while the body is read
DlBreak ==
    /\ pc = "dl_stream"
    /\ dl.dest.bytes < dl.body
    /\ dl' = [dl EXCEPT !.logged = TRUE]
    /\ pc' = "dl_failed"
    /\ UNCHANGED <<notCalls, vr>>

\* line 272: the iterator is exhausted and "Downloaded: ..." is printed
DlEnd ==
    /\ pc = "dl_stream"
    /\ dl.dest.bytes = dl.body
    /\ dl' = [dl EXCEPT !.reported = TRUE]
    /\ pc' = "dl_done"
    /\ UNCHANGED <<notCalls, vr>>

DownloadNext ==
    \/ DlRequest
    \/ DlOpen
    \/ DlChunk
    \/ DlBreak
    \/ DlEnd

DownloadSpec == DownloadInit /\ [][DownloadNext]_vars

(* ============================ properties ============================== *)
Ended == pc \in {"done", "aborted", "crashed"}
InZip == pc \in {"zip_write", "zip_close", "rmtree"}
ConfigPresent == CLIENT_ID # "" /\ CLIENT_SECRET # ""
\* get_dryad_token was called in this run and found an unexpired record
CacheHit ==
    /\ auth.pre.kind = "record"
    /\ auth.at < fromisoformat(auth.pre.expiry)

\* C1: with a valid credential, whatever fails while one identifier is
\* processed, the run ends in DONE with the version resolution of every
\* identifier of the argument list attempted.
C1_FailureIsolation ==
    (Ended /\ Truthy(token) /\ dois # <<>>) =>
        (pc = "done" /\ run.resolved = Len(dois))

\* C2: the working directory is removed only when the archive is closed and
\* holds every file of the directory, and after a failure to open or write
\* the archive the directory and all its files are still there.
C2_ArchiveBeforeDelete ==
    /\ pc = "rmtree" =>
          /\ zipfile[doi].closed
          /\ zipfile[doi].entries = workdir[doi].files
    /\ cur.removed =>
          /\ zipfile[doi].exists /\ zipfile[doi].closed
          /\ zipfile[doi].entries = cur.src
          /\ ~cur.zipfail
    /\ cur.zipfail =>
          /\ workdir[doi].exists
          /\ workdir[doi].files = cur.src

C2_Witness ==
    /\ pc = "crashed" /\ cur.zipfail
    /\ zipfile[doi].exists /\ zipfile[doi].entries # cur.src
    /\ \E f \in Files : workdir[doi].files[f] = "full"

\* C3: get_dryad_token is called exactly once in a run, before anything is
\* done for an identifier, and when it raises or returns nothing the run
\* ends without a versions, files or download request and without creating
\* a directory.
C3_AuthOnceAndFatal ==
    /\ auth.calls <= 1
    /\ pc \in {"idle", "auth"} =>
          (auth.calls = 0 /\ ~run.gets /\ ~run.mkdirs /\ run.resolved = 0)
    /\ pc \notin {"idle", "auth"} => auth.calls = 1
    /\ (auth.calls = 1 /\ ~Truthy(token)) =>
          /\ pc \in {"aborted", "crashed"}
          /\ ~run.gets /\ ~run.mkdirs /\ run.resolved = 0 /\ doiIdx = 0

C3_Witness ==
    /\ pc = "aborted" /\ auth.calls = 1 /\ auth.posts = 1
    /\ auth.resp.kind = "status" /\ dois # <<>>
    /\ PARENT_DIRECTORY # ""

\* C4 as stated: with PARENT_DIRECTORY empty no network request is issued
\* for an identifier.
C4_NoRequestWithoutParent ==
    PARENT_DIRECTORY = "" =>
        (cur.versions = 0 /\ cur.files = 0 /\ cur.downloads = 0)

\* C4 amended: with PARENT_DIRECTORY empty no download request is issued and
\* no directory is created; the missing configuration is reported only after
\* the versions request and the files request of the identifier were issued
\* and the listing was answered with 200, and the identifier is then given up.
C4_NoDownloadWithoutParent ==
    PARENT_DIRECTORY = "" =>
        /\ cur.downloads = 0 /\ cur.mkdirs = 0 /\ ~run.mkdirs
        /\ pc \notin {"download", "archive"} /\ ~InZip
        /\ cur.cfgerr =>
              (cur.versions = 1 /\ cur.files = 1 /\ pc = "loop")

C4_Witness ==
    /\ PARENT_DIRECTORY = "" /\ cur.cfgerr /\ pc = "loop"
    /\ file_list # <<>> /\ doiIdx = 2

\* C5: when version resolution returned nothing for an identifier, no files
\* request and no download request is issued for it and nothing is archived.
C5_AbsentVersionAbandons ==
    (cur.versions = 1 /\ version = None /\ pc # "resolve") =>
        (cur.files = 0 /\ cur.downloads = 0 /\ ~InZip /\ ~cur.removed)

\* C6: load_cached_token returns nothing when no file is there; deletes the
\* file and returns nothing when the record's expiry is not after now; and
\* otherwise returns the record's token and leaves the file as it was.
C6_LoadCases ==
    cacheOp.op = "load" =>
        /\ cacheOp.pre = NoFile =>
              (cacheOp.ret = None /\ cacheFile = NoFile)
        /\ (cacheOp.pre.kind = "record"
              /\ fromisoformat(cacheOp.pre.expiry) <= cacheOp.at) =>
              (cacheOp.ret = None /\ cacheFile = NoFile)
        /\ (cacheOp.pre.kind = "record"
              /\ cacheOp.at < fromisoformat(cacheOp.pre.expiry)) =>
              (cacheOp.ret = cacheOp.pre.token /\ cacheFile = cacheOp.pre)

C6_Witness ==
    /\ cacheOp.op = "load" /\ cacheOp.pre.kind = "record"
    /\ fromisoformat(cacheOp.pre.expiry) = cacheOp.at
    /\ cacheFile = NoFile

\* the last cache operation is a load, and the last save before it is `saved'
LoadAfterSave == cacheOp.op = "load" /\ saved.token # None
ExpiryOfSaved == saved.at + saved.hours * 60 - 1

\* C7 as stated: for every lifetime, a load at the instant of the save
\* returns the saved token, and a load after the expiry instant returns
\* nothing and leaves no file.
C7_RoundTripAnyLifetime ==
    LoadAfterSave =>
        /\ cacheOp.at = saved.at => cacheOp.ret = saved.token
        /\ cacheOp.at > ExpiryOfSaved =>
              (cacheOp.ret = None /\ cacheFile = NoFile)

\* C7 amended: the same for every lifetime of at least one hour.
C7_RoundTrip ==
    (LoadAfterSave /\ saved.hours >= 1) =>
        /\ cacheOp.at = saved.at =>
              (cacheOp.ret = saved.token /\ cacheFile.kind = "record")
        /\ cacheOp.at > ExpiryOfSaved =>
              (cacheOp.ret = None /\ cacheFile = NoFile)

C7_Witness ==
    /\ LoadAfterSave /\ saved.hours >= 1
    /\ cacheOp.at > ExpiryOfSaved
    /\ cacheOp.pre.kind = "record"

\* C8: with CLIENT_ID or CLIENT_SECRET empty, get_dryad_token returns
\* nothing, issues no POST and leaves the cache file as it found it, also
\* when the file holds an unexpired token (and when it holds an expired one).
C8_ConfigErrorFirst ==
    (auth.calls = 1 /\ ~ConfigPresent) =>
        /\ token = None /\ pc = "aborted"
        /\ auth.posts = 0 /\ auth.resp = NoResp
        /\ cacheFile = auth.pre

C8_Witness ==
    /\ auth.calls = 1 /\ CLIENT_ID # "" /\ CLIENT_SECRET = ""
    /\ CacheHit /\ pc = "aborted"

\* C9: in every run of a sequence of runs, a POST is issued only when the
\* cache file holds no unexpired token; when it holds one, that token is
\* returned, no POST is issued and the file is left as it was.
C9_NoNeedlessExchange ==
    auth.calls = 1 =>
        /\ auth.posts > 0 => ~CacheHit
        /\ (CacheHit /\ ConfigPresent) =>
              /\ token = auth.pre.token
              /\ auth.posts = 0
              /\ cacheFile = auth.pre

C9_Witness ==
    /\ auth.calls = 1 /\ runs = 2 /\ ConfigPresent /\ CacheHit
    /\ auth.at > 0 /\ token = auth.pre.token /\ pc = "done"

\* C10: on a cache miss exactly one POST is issued; after a 200 response the
\* cache file holds the returned token, expiring 10 * 60 - 1 minutes after
\* the call, and that token is returned; after another status nothing is
\* returned and the file is not written (an expired record stays deleted).
C10_ExchangeOnMiss ==
    (auth.calls = 1 /\ ConfigPresent /\ ~CacheHit) =>
        /\ auth.posts = 1
        /\ auth.resp.kind = "ok" =>
              /\ token = auth.resp.token
              /\ cacheFile.kind = "record"
              /\ cacheFile.token = auth.resp.token
              /\ fromisoformat(cacheFile.expiry) = auth.at + 10 * 60 - 1
        /\ auth.resp.kind = "status" =>
              /\ token = None /\ pc = "aborted"
              /\ cacheFile = (IF auth.pre.kind = "record" THEN NoFile ELSE auth.pre)

C10_Witness ==
    /\ auth.calls = 1 /\ ConfigPresent /\ ~CacheHit
    /\ auth.resp.kind = "ok"
    /\ auth.pre.kind = "record" /\ auth.pre.token # token
    /\ cacheFile.token = token


\* C11: for a 200 response whose list of versions has N >= 1 elements the
\* resolver returns the locator of the element at index N-1, whatever the
\* count field says, and for N = 0 it returns None without raising
C11_LastOfList ==
    (vr.called /\ vr.resp.kind = "ok") =>
        LET N == Len(vr.resp.versions) IN
        /\ ~vr.raised
        /\ vr.ret = IF N >= 1 /\ Truthy(vr.resp.versions[N])
                    THEN vr.resp.versions[N]
                    ELSE None

\* C12: when the download request returns a non-success status the
\* destination file is left as it was (not created, not modified) and no
\* "Downloaded" report is made
C12_FailFast ==
    (pc # "dl_request" /\ dl.code >= 400) =>
        /\ dl.dest = dl.before
        /\ ~dl.reported

C12_Witness ==
    pc = "dl_failed" /\ dl.code >= 400 /\ dl.before.exists /\ dl.before.bytes > 0
    /\ dl.dest = dl.before /\ dl.logged

\* C13 as stated: with a content-length S > 0 and any chunks, the reported
\* percentage never decreases, never exceeds 100, is 100 only when the
\* stream is complete, and a completed download has written S bytes
C13_AccountingAnyChunks ==
    dl.total_size > 0 =>
        /\ dl.prev <= dl.pct
        /\ dl.pct <= 1000
        /\ dl.pct = 1000 => dl.dest.bytes = dl.body
        /\ dl.reported => dl.dest.bytes = dl.total_size

\* C13 amended: when the body is the declared S > 0 bytes, in any chunks,
\* the printed percentage never decreases and never exceeds 100.0, it shows
\* 100.0 only once at least 99.95% of S is written, the computed percentage
\* is 100 only when all S bytes are written, and a completed download has
\* written S bytes
C13_Accounting ==
    (dl.total_size > 0 /\ dl.body = dl.total_size) =>
        /\ dl.prev <= dl.pct
        /\ dl.pct <= 1000
        /\ dl.downloaded <= dl.total_size
        /\ dl.pct = 1000 => 2000 * dl.dest.bytes >= 1999 * dl.total_size
        /\ dl.downloaded = dl.total_size => dl.dest.bytes = dl.total_size
        /\ dl.reported => dl.dest.bytes = dl.total_size

C13_Witness ==
    /\ pc = "dl_done" /\ dl.reported
    /\ dl.total_size > 1 /\ dl.body = dl.total_size
    /\ dl.prev > 0 /\ dl.prev < 1000 /\ dl.pct = 1000
    /\ dl.dest.bytes = dl.total_size

\* C14: a failed download of one listed file does not abort the dataset:
\* once the listing is in and the working directory made, every listed file
\* is attempted and the archive step is reached
C14_DownloadFailureIsolated ==
    (cur.files = 1 /\ cur.mkdirs >= 1 /\ pc # "download") =>
        /\ cur.downloads = Len(file_list)
        /\ cur.attempted = file_list
        /\ pc = "archive" \/ cur.archived

\* C15: whenever a step for an identifier has failed, an error record has
\* been written to the log before processing goes on, and no request is
\* issued a second time
C15_FailuresLogged ==
    /\ cur.failed => cur.logged
    /\ cur.versions <= 1 /\ cur.files <= 1
    /\ cur.downloads <= Len(file_list)

\* the set of elements of a sequence
Range(seq) == {seq[i] : i \in 1..Len(seq)}

\* C16: when the remote was healthy for an identifier (version resolved,
\* listing received, every download complete) and its processing has
\* finished, dataset.zip in the output directory holds exactly the files of
\* the listing, in full, and the working directory no longer exists,
\* whatever earlier runs left on disk
C16_ExactArchive ==
    (cur.removed /\ ~cur.failed /\ version # None) =>
        /\ outdir[doi].exists
        /\ zipfile[doi].exists /\ zipfile[doi].closed
        /\ \A f \in Files :
              zipfile[doi].entries[f] = IF f \in Range(file_list) THEN "full" ELSE "absent"
        /\ ~workdir[doi].exists

\* C17: after zip_folder has succeeded with remove_source, the names in
\* the archive are exactly the paths, relative to the source directory, of
\* the files that were under it, each with its content, and the source
\* directory no longer exists
C17_ArchiveIntegrity ==
    cur.removed =>
        /\ zipfile[doi].names =
              {layout[f] \o <<f>> : f \in {g \in Files : cur.src[g] # "absent"}}
        /\ \A f \in Files : zipfile[doi].entries[f] = cur.src[f]
        /\ zipfile[doi].closed
        /\ ~workdir[doi].exists /\ Present(workdir[doi]) = {}

C17_Witness ==
    /\ cur.removed
    /\ \E f, g \in Files :
          /\ layout[f] = Subdir /\ layout[g] = NoSubdir
          /\ cur.src[f] = "full" /\ cur.src[g] = "full"
          /\ <<0, f>> \in zipfile[doi].names /\ <<g>> \in zipfile[doi].names

\* C18: for each identifier the steps come in the order versions request,
\* files request, the downloads of the listed files one at a time in
\* listing order, archive; the archive step starts only when a download has
\* been attempted for every listed file; and the identifiers are taken one
\* after the other, the next one only when the steps of the one before are
\* over
C18_StrictSequence ==
    /\ cur.files >= 1 => cur.versions = 1
    /\ cur.downloads >= 1 => cur.files = 1
    /\ cur.downloads = Len(cur.attempted)
    /\ Len(cur.attempted) <= Len(file_list)
    /\ cur.attempted = SubSeq(file_list, 1, Len(cur.attempted))
    /\ pc = "resolve" => cur.versions = 0 /\ run.resolved = doiIdx - 1
    /\ pc = "list" => cur.files = 0
    /\ pc = "download" => Len(cur.attempted) = fileIdx - 1 /\ ~cur.archived
    /\ (pc = "archive" \/ cur.archived) => cur.files = 1 /\ cur.attempted = file_list
    /\ pc \in {"list", "download", "archive", "zip_write", "zip_close", "rmtree"} =>
          run.resolved = doiIdx /\ cur.versions = 1

C18_Witness ==
    /\ cur.removed /\ doiIdx = 2
    /\ Len(file_list) = 2 /\ cur.attempted = file_list
    /\ run.resolved = 2

\* C19: the token main gets from get_dryad_token is unexpired when it is
\* acquired (now < expiry of the cache record that holds it, found or just
\* written), every request of the run carries that token, and the run
\* calls get_dryad_token once and leaves the cache record alone even when
\* the expiry passes while it runs
C19_OneValidToken ==
    /\ auth.calls <= 1 /\ auth.posts <= 1
    /\ (auth.calls = 1 /\ Truthy(token)) =>
          /\ cacheFile.kind = "record"
          /\ cacheFile.token = token
          /\ auth.at < fromisoformat(cacheFile.expiry)
    /\ run.gets => run.bearer = {token} /\ Truthy(token)
    /\ ~run.gets => run.bearer = {}

C19_Witness ==
    /\ pc = "rmtree" /\ run.resolved = 1 /\ cur.downloads = 2
    /\ run.bearer = {token} /\ Truthy(token)
    /\ cacheFile.kind = "record"
    /\ auth.at < fromisoformat(cacheFile.expiry)
    /\ now >= fromisoformat(cacheFile.expiry)

\* C20: the token-cache record changes only inside get_dryad_token, either
\* because load removed a record whose expiry was reached or because the
\* token of a 200 answer to the exchange was saved; the versions, files and
\* download requests, the directory creation and the archiving leave it as
\* it is
C20_CacheFrame ==
    [][cacheFile' # cacheFile =>
          /\ pc = "auth"
          /\ \/ /\ cacheFile.kind = "record"
                /\ fromisoformat(cacheFile.expiry) <= now
                /\ cacheFile' = NoFile
             \/ /\ auth'.posts = 1
                /\ auth'.resp.kind = "ok" /\ auth'.resp.code = HTTP_OK
                /\ cacheFile' = CacheRecord(auth'.resp.token,
                                            isoformat(now + DEFAULT_EXPIRED_HOURS * 60 - 1))]_vars

C20_Witness ==
    /\ cur.removed /\ cur.downloads >= 1
    /\ auth.pre.kind = "record" /\ fromisoformat(auth.pre.expiry) <= auth.at
    /\ auth.resp.kind = "ok"
    /\ cacheFile.kind = "record" /\ cacheFile.token = token
    /\ cacheFile # auth.pre

=============================================================================
